---- MODULE Spec2Model ----
(***************************************************************************)
(* The user synchronisation of synergy-way: UsersService.sync_users        *)
(* (src/users/service.py), the SQLAlchemy session it stages rows in        *)
(* (src/app/users/infrastructure/repository.py, src/app/users/models.py),  *)
(* the two API clients (src/users/infrastructure/api_client.py) and the    *)
(* Celery task that owns the transaction (src/users/tasks.py).             *)
(***************************************************************************)
EXTENDS Integers, Sequences, FiniteSets, TLC

\* Longest user list the directory API answers with.
MaxFetch == 2
\* max_retries of sync_users_task.
MaxRetries == 3

\* Task executions that may be in flight; one SQLAlchemy session each.
Sessions == {1, 2}

UserIds == {1, 2}

Profiles ==
    { [name |-> "n1", address |-> [street |-> "s1"], company |-> [name |-> "k1"]],
      [name |-> "n2", address |-> [street |-> "s2"], company |-> [name |-> "k2"]] }

\* One record of the directory API: id, the scalar fields, nested address and company.
UserRecords ==
    { [id |-> i, name |-> p.name, address |-> p.address, company |-> p.company] :
        i \in UserIds, p \in Profiles }

\* One record of the card API.
CardRecords == { [number |-> "c1"], [number |-> "c2"] }

SeqsUpTo(S, n) == UNION { [1..k -> S] : k \in 0..n }

\* The JSON array GET /users answers with.
Directories == SeqsUpTo(UserRecords, MaxFetch)

\* Outcomes of requests.get + raise_for_status + json in BaseApiClient._get.
HttpFailures == {"HTTPError", "RequestException"}

\* A bug: the clients catch ConnectionError only.
IsRequestException_OnlyConnection(e) == e = "ConnectionError"

\* HTTPError is a subclass of RequestException: both are caught by `except RequestException`.
IsRequestException(e) == e \in {"HTTPError", "RequestException"}

\* BaseApiClient._get: the deserialised body, or the request's exception re-raised.
BaseGet(response) ==
    IF response.status = "ok"
    THEN [exc |-> "none", json |-> response.json]
    ELSE [exc |-> response.status, json |-> <<>>]

\* What a client call gives its caller: a value returned or an exception
\* raised, after one call of _get.
Returns(value) == [exc |-> "none", value |-> value, gets |-> 1]
Raises(exception) == [exc |-> exception, value |-> <<>>, gets |-> 1]

\* A bug: the except clause of get_users logs the failure and re-raises it.
get_users_Reraises(response) ==
    LET r == BaseGet(response)
    IN  IF r.exc = "none" THEN Returns(r.json) ELSE Raises(r.exc)

\* JsonPlaceholderClient.get_users: the body as it is, [] on a RequestException;
\* any other exception of _get is not caught.
get_users(response) ==
    LET r == BaseGet(response)
    IN  IF r.exc = "none" THEN Returns(r.json)
        ELSE IF IsRequestException(r.exc) THEN Returns(<<>>)
        ELSE Raises(r.exc)

\* One character of a JSON string: what iterating a str yields, not a dict.
Characters == { [char |-> "x"] }

\* Bodies of GET /creditCards?_quantity=N: a non-dict, a dict without "data",
\* the envelope with a "data" array (the API may answer with fewer or more
\* records than asked for), or a dict whose "data" is a string, not an array.
CardBodies(quantity) ==
    { [isdict |-> FALSE, haskey |-> FALSE, isarray |-> FALSE, data |-> <<>>],
      [isdict |-> TRUE, haskey |-> FALSE, isarray |-> FALSE, data |-> <<>>] }
    \cup { [isdict |-> TRUE, haskey |-> TRUE, isarray |-> TRUE, data |-> c] :
             c \in SeqsUpTo(CardRecords, quantity + 1) }
    \cup { [isdict |-> TRUE, haskey |-> TRUE, isarray |-> FALSE, data |-> c] :
             c \in SeqsUpTo(Characters, quantity + 1) }

\* data.get("data"): None when the key is absent. None, [] and "" are falsy.
DictGetData(json) == IF json.haskey THEN json.data ELSE <<>>

\* A bug: the result is cut with data["data"][:quantity - 1].
get_credit_cards_CutShort(quantity, response) ==
    IF quantity <= 0 THEN [Returns(<<>>) EXCEPT !.gets = 0]
    ELSE IF response.status # "ok" \/ ~response.json.isdict
            \/ DictGetData(response.json) = <<>>
    THEN Returns(<<>>)
    ELSE Returns(SubSeq(response.json.data, 1, quantity - 1))

\* FakerApiClient.get_credit_cards: no request for a quantity of 0 or less.
get_credit_cards(quantity, response) ==
    IF quantity <= 0 THEN [Returns(<<>>) EXCEPT !.gets = 0]
    ELSE LET r == BaseGet(response)
         IN  IF r.exc = "none"
             THEN IF ~r.json.isdict \/ DictGetData(r.json) = <<>>
                  THEN Returns(<<>>)
                  ELSE Returns(r.json.data)
             ELSE IF IsRequestException(r.exc) THEN Returns(<<>>)
             ELSE Raises(r.exc)

DirectoryResponses ==
    { [status |-> f, json |-> <<>>] : f \in HttpFailures }
    \cup { [status |-> "ok", json |-> d] : d \in Directories }

CardResponses(quantity) ==
    { [status |-> f, json |-> <<>>] : f \in HttpFailures }
    \cup { [status |-> "ok", json |-> b] : b \in CardBodies(quantity) }

\* The four tables, each a function from primary key to row.
EmptyTables ==
    [users |-> <<>>, addresses |-> <<>>, companies |-> <<>>, credit_cards |-> <<>>]

ChildKinds == {"addresses", "companies", "credit_cards"}

VARIABLES
    db,        \* the committed rows of the four tables
    pc,        \* per session: the position of the task execution
    task,      \* per session: self.request.retries, the exception in flight, the return value
    loc,       \* per session: the locals of sync_users
    objs,      \* per session: the objects added to the Session, in order of add()
    hist       \* per session: what the execution has done (calls made, rows at its start)

vars == <<db, pc, task, loc, objs, hist>>

\* The locals of sync_users before line 43 runs. address, company, credit_card
\* and the elements of created_users are references: indices into objs.
InitLocals ==
    [users_data |-> <<>>, new_users_data |-> <<>>, all_credit_cards |-> <<>>,
     card_iterator |-> 0, d |-> 0, faker_card_data |-> [number |-> "none"],
     address |-> 0, company |-> 0, credit_card |-> 0, created_users |-> <<>>,
     e |-> "none"]

\* self.request.retries, whether the name `session` is bound, the exception
\* the task's except clause holds, and what the execution ended with.
InitTask ==
    [retries |-> 0, session |-> FALSE, exc |-> "none",
     result |-> [status |-> "none", created |-> 0]]

\* What an execution has done so far: the quantities get_credit_cards was
\* called with, the repository operations called, the committed rows when it
\* began, the exception a store operation of the create loop raised, whether
\* a request failed, how sync_users ended (EMPTY, SUCCESS, ABORTED), the
\* listing and fate of the execution before it, how often the task called
\* sync_users, session.commit, session.rollback and self.retry, what the
\* card API answered, and the requests each client made.
InitHist ==
    [cc_calls |-> <<>>, ops |-> <<>>, db0 |-> EmptyTables, op_exc |-> "none",
     dir_err |-> FALSE, cc_err |-> FALSE, outcome |-> "none",
     prev_data |-> <<>>, prev_committed |-> FALSE, rerun |-> FALSE,
     calls |-> 0, commits |-> 0, rollbacks |-> 0, retry_calls |-> 0,
     cc_resp |-> [status |-> "none"], dir_gets |-> 0, cc_gets |-> 0]

Init ==
    /\ db = EmptyTables
    /\ pc = [s \in Sessions |-> IF s = 1 THEN "idle" ELSE "off"]
    /\ task = [s \in Sessions |-> InitTask]
    /\ loc = [s \in Sessions |-> InitLocals]
    /\ objs = [s \in Sessions |-> <<>>]
    /\ hist = [s \in Sessions |-> InitHist]

----------------------------------------------------------------------------
(* The SQLAlchemy Session: objects added with add() are pending until a    *)
(* flush INSERTs them inside the open transaction.                         *)

Pending(o) == o.state = "pending"

Indices(os, kind) == { j \in 1..Len(os) : os[j].kind = kind }

\* Position of the pending object j among the pending objects of its table.
ChildRank(os, j) ==
    Cardinality({ i \in 1..j : os[i].kind = os[j].kind /\ Pending(os[i]) })

\* The objects after a flush: every pending child row has its autoincrement id,
\* every pending object is in the transaction.
Flushed(os, sq) ==
    [j \in 1..Len(os) |->
        IF ~Pending(os[j]) THEN os[j]
        ELSE IF os[j].kind \in ChildKinds
             THEN [os[j] EXCEPT !.id = sq[os[j].kind] + ChildRank(os, j),
                                !.state = "persistent"]
             ELSE [os[j] EXCEPT !.state = "persistent"]]

\* The rows of one table a session holds, by primary key.
TableOf(os, kind) ==
    [i \in { os[j].id : j \in Indices(os, kind) } |->
        os[CHOOSE j \in Indices(os, kind) : os[j].id = i].row]

Merge(f, g) ==
    [x \in DOMAIN f \cup DOMAIN g |-> IF x \in DOMAIN g THEN g[x] ELSE f[x]]

\* The tables with a session's rows written to them.
WithRows(tables, os) ==
    [users |-> Merge(tables.users, TableOf(os, "users")),
     addresses |-> Merge(tables.addresses, TableOf(os, "addresses")),
     companies |-> Merge(tables.companies, TableOf(os, "companies")),
     credit_cards |-> Merge(tables.credit_cards, TableOf(os, "credit_cards"))]

\* A bug: the users table has no primary key, a second row of the same id
\* replaces the first.
UserInsertRejected_NoPrimaryKey(os, fl, tables) ==
    \E j \in Indices(os, "users") :
        /\ Pending(os[j])
        /\ \/ os[j].row.address_id \notin
                  DOMAIN tables.addresses \cup DOMAIN TableOf(fl, "addresses")
           \/ os[j].row.company_id \notin
                  DOMAIN tables.companies \cup DOMAIN TableOf(fl, "companies")
           \/ /\ os[j].row.credit_card_id # 0
              /\ \/ os[j].row.credit_card_id \notin
                        DOMAIN tables.credit_cards \cup DOMAIN TableOf(fl, "credit_cards")
                 \/ \E u \in DOMAIN tables.users :
                        tables.users[u].credit_card_id = os[j].row.credit_card_id
                 \/ \E i \in Indices(os, "users") :
                        i # j /\ os[i].row.credit_card_id = os[j].row.credit_card_id

\* The constraints of the users table (models.py): primary key id, NOT NULL
\* foreign keys address_id and company_id, unique nullable credit_card_id.
\* TRUE when the INSERT of a pending User of os is rejected (IntegrityError).
\* fl is os after the child rows of the same flush were inserted.
UserInsertRejected(os, fl, tables) ==
    \E j \in Indices(os, "users") :
        /\ Pending(os[j])
        /\ \/ os[j].id \in DOMAIN tables.users
           \/ \E i \in Indices(os, "users") : i # j /\ os[i].id = os[j].id
           \/ os[j].row.address_id \notin
                  DOMAIN tables.addresses \cup DOMAIN TableOf(fl, "addresses")
           \/ os[j].row.company_id \notin
                  DOMAIN tables.companies \cup DOMAIN TableOf(fl, "companies")
           \/ /\ os[j].row.credit_card_id # 0
              /\ \/ os[j].row.credit_card_id \notin
                        DOMAIN tables.credit_cards \cup DOMAIN TableOf(fl, "credit_cards")
                 \/ \E u \in DOMAIN tables.users :
                        tables.users[u].credit_card_id = os[j].row.credit_card_id
                 \/ \E i \in Indices(os, "users") :
                        i # j /\ os[i].row.credit_card_id = os[j].row.credit_card_id

\* The INSERT of a pending User of session s waits: another session's open
\* transaction has inserted a row with the same primary key and has neither
\* committed nor rolled back.
Blocked(s) ==
    \E j \in Indices(objs[s], "users") :
        /\ Pending(objs[s][j])
        /\ \E t \in Sessions \ {s} :
               \E i \in Indices(objs[t], "users") :
                   /\ ~Pending(objs[t][i])
                   /\ objs[t][i].id = objs[s][j].id

MaxOf(S) == IF S = {} THEN 0 ELSE CHOOSE x \in S : \A y \in S : y <= x

\* autoincrement (models.py): a child row's id is drawn above every id of its
\* table in use, committed or held by a session in flight. Ids drawn by a
\* transaction that was rolled back are held by no row and are drawn again.
LastId ==
    [k \in ChildKinds |->
        MaxOf(DOMAIN db[k]
              \cup UNION { { objs[s][j].id : j \in Indices(objs[s], k) } : s \in Sessions })]

\* A bug: the lookup filters on a column that never matches and finds nothing.
get_user_by_id_None(s, user_id) == FALSE

\* UsersRepository.get_user_by_id: the query sees the committed rows and the
\* session's own rows (a query autoflushes what is pending). TRUE when a row is found.
get_user_by_id(s, user_id) ==
    \/ user_id \in DOMAIN db.users
    \/ \E j \in Indices(objs[s], "users") : objs[s][j].id = user_id

\* A bug: the existence filter is skipped, every fetched record counts as new.
NewUsers_Unfiltered(s, users_data) == users_data

\* A bug: new records are collected in reverse (insert(0, d) for append(d)).
NewUsers_Reversed(s, users_data) ==
    LET new == SelectSeq(users_data, LAMBDA d : ~get_user_by_id(s, d.id))
    IN  [i \in 1..Len(new) |-> new[Len(new) + 1 - i]]

\* A bug: a stored user whose upstream name changed is synchronised again.
NewUsers_Changed(s, users_data) ==
    SelectSeq(users_data,
              LAMBDA d : \/ ~get_user_by_id(s, d.id)
                         \/ /\ d.id \in DOMAIN db.users
                            /\ db.users[d.id].name # d.name)

\* A change: a record whose id came earlier in the same listing is dropped.
NewUsers_Deduped(s, users_data) ==
    LET first == { i \in 1..Len(users_data) :
                     /\ ~get_user_by_id(s, users_data[i].id)
                     /\ \A k \in 1..(i - 1) : users_data[k].id # users_data[i].id }
        Nth(n) == CHOOSE i \in first : Cardinality({ k \in first : k <= i }) = n
    IN  [n \in 1..Cardinality(first) |-> users_data[Nth(n)]]

\* A bug: the filter loop stops at the first new record (a stray break).
NewUsers_FirstOnly(s, users_data) ==
    LET new == SelectSeq(users_data, LAMBDA d : ~get_user_by_id(s, d.id))
    IN  SubSeq(new, 1, IF Len(new) >= 1 THEN 1 ELSE 0)

\* sync_users lines 52-55: the fetched records whose id the store does not hold.
NewUsers(s, users_data) ==
    SelectSeq(users_data, LAMBDA d : ~get_user_by_id(s, d.id))

\* A bug: only an empty answer counts as a shortfall.
Insufficient_OnlyEmpty(all_credit_cards, num_new_users) ==
    Len(all_credit_cards) = 0

\* A bug: the check is `!=`, a surplus of cards aborts the pass too.
Insufficient_NotEqual(all_credit_cards, num_new_users) ==
    Len(all_credit_cards) # num_new_users

\* sync_users line 68: fewer cards than new users.
Insufficient(all_credit_cards, num_new_users) ==
    Len(all_credit_cards) < num_new_users

\* A bug: the early return on an empty listing is missing.
AfterFetch_NoReturn(users_data) == "diff"

\* A bug: an empty listing is raised as an error, to be retried.
AfterFetch_Raises(users_data) == IF users_data = <<>> THEN "rollback" ELSE "diff"

\* sync_users line 46: `if not users_data: return []`, else on to the filter.
AfterFetch(users_data) == IF users_data = <<>> THEN "commit" ELSE "diff"

\* A bug: one card is requested at a time.
BatchQuantity_One(new_users_data) == 1

\* sync_users line 57: num_new_users, the quantity of the one batch request.
BatchQuantity(new_users_data) == Len(new_users_data)

\* A bug: the iterator is made anew in every round, each user gets the first card.
NextCard_First(all_credit_cards, card_iterator) == all_credit_cards[1]

\* sync_users lines 78 and 84: next(card_iterator) over all_credit_cards.
NextCard(all_credit_cards, card_iterator) == all_credit_cards[card_iterator + 1]

\* sync_users lines 106-112: the except clause logs and re-raises what it caught.
Reraise(e) == e

\* How sync_users ended.
Ends(s, outcome) == [hist EXCEPT ![s].outcome = outcome]

Log(s, op) == [hist EXCEPT ![s].ops = Append(@, op)]

----------------------------------------------------------------------------
(* sync_users_task and sync_users, one action per step.                    *)

\* A task execution begins: task_id, the two clients, the try block.
Begin(s, retries) ==
    /\ pc' = [pc EXCEPT ![s] = "open"]
    /\ task' = [task EXCEPT ![s] = [InitTask EXCEPT !.retries = retries]]
    /\ loc' = [loc EXCEPT ![s] = InitLocals]
    /\ objs' = [objs EXCEPT ![s] = <<>>]
    /\ hist' = [hist EXCEPT ![s] =
                   [InitHist EXCEPT !.db0 = db,
                                    !.prev_data = hist[s].prev_data,
                                    !.prev_committed = hist[s].prev_committed]]

\* The beat schedule fires sync_users_task.
TaskStart(s) ==
    /\ pc[s] = "idle"
    /\ Begin(s, 0)
    /\ UNCHANGED db

\* sync_users_task lines 45-52: `with session_factory() as session` binds the
\* name `session`, then the repository and the service are made and sync_users
\* is called. When session_factory() raises, the name is never bound and
\* control goes to the except clause of the task.
OpenSession(s) ==
    /\ pc[s] = "open"
    /\ \/ /\ task' = [task EXCEPT ![s].session = TRUE]
          /\ hist' = [hist EXCEPT ![s].calls = @ + 1]
          /\ pc' = [pc EXCEPT ![s] = "get_users"]
       \/ /\ task' = [task EXCEPT ![s].exc = "SessionFactoryError"]
          /\ hist' = hist
          /\ pc' = [pc EXCEPT ![s] = "rollback"]
    /\ UNCHANGED <<db, loc, objs>>

\* sync_users lines 43-50.
GetUsers(s) ==
    /\ pc[s] = "get_users"
    /\ \E response \in DirectoryResponses :
         LET call == get_users(response)
             users_data == call.value
             next == IF call.exc # "none" THEN "rollback" ELSE AfterFetch(users_data)
         IN  /\ loc' = [loc EXCEPT ![s].users_data = users_data]
             /\ task' = [task EXCEPT ![s].exc = call.exc]
             /\ hist' = [hist EXCEPT
                           ![s].dir_err = (response.status # "ok"),
                           ![s].dir_gets = @ + call.gets,
                           ![s].rerun = (hist[s].prev_committed
                                          /\ hist[s].prev_data = users_data),
                           ![s].prev_committed = FALSE,
                           ![s].prev_data = <<>>,
                           ![s].outcome = IF next = "rollback" THEN "ABORTED"
                                          ELSE IF next = "commit" THEN "EMPTY"
                                          ELSE "none"]
             /\ pc' = [pc EXCEPT ![s] = next]
    /\ UNCHANGED <<db, objs>>

\* sync_users lines 52-60.
Diff(s) ==
    /\ pc[s] = "diff"
    /\ LET new_users_data == NewUsers(s, loc[s].users_data)
           num_new_users == Len(new_users_data)
       IN  /\ loc' = [loc EXCEPT ![s].new_users_data = new_users_data]
           /\ pc' = [pc EXCEPT ![s] =
                        IF num_new_users = 0 THEN "commit" ELSE "get_credit_cards"]
           /\ hist' = [hist EXCEPT
                         ![s].ops = @ \o [i \in 1..Len(loc[s].users_data) |-> "get_user_by_id"],
                         ![s].outcome = IF num_new_users = 0 THEN "EMPTY" ELSE "none"]
    /\ UNCHANGED <<db, task, objs>>

\* sync_users line 66.
GetCreditCards(s) ==
    /\ pc[s] = "get_credit_cards"
    /\ LET num_new_users == BatchQuantity(loc[s].new_users_data)
       IN  \E response \in CardResponses(num_new_users) :
             LET call == get_credit_cards(num_new_users, response)
             IN  /\ loc' = [loc EXCEPT ![s].all_credit_cards = call.value]
                 /\ task' = [task EXCEPT ![s].exc = call.exc]
                 /\ hist' = [hist EXCEPT
                               ![s].cc_calls = Append(@, num_new_users),
                               ![s].cc_resp = response,
                               ![s].cc_gets = @ + call.gets,
                               ![s].cc_err = (response.status # "ok"),
                               ![s].outcome = IF call.exc # "none" THEN "ABORTED" ELSE "none"]
                 /\ pc' = [pc EXCEPT ![s] = IF call.exc # "none" THEN "rollback" ELSE "check"]
    /\ UNCHANGED <<db, objs>>

\* sync_users lines 68-78.
CheckCards(s) ==
    /\ pc[s] = "check"
    /\ IF Insufficient(loc[s].all_credit_cards, Len(loc[s].new_users_data))
       THEN /\ task' = [task EXCEPT ![s].exc = "InsufficientCards"]
            /\ pc' = [pc EXCEPT ![s] = "rollback"]
            /\ hist' = Ends(s, "ABORTED")
            /\ loc' = loc
       ELSE /\ loc' = [loc EXCEPT ![s].card_iterator = 0]
            /\ pc' = [pc EXCEPT ![s] = "loop"]
            /\ UNCHANGED <<task, hist>>
    /\ UNCHANGED <<db, objs>>

\* A store operation of the create loop raises: control goes to the except clause.
Raise(s, exception) ==
    /\ loc' = [loc EXCEPT ![s].e = exception]
    /\ pc' = [pc EXCEPT ![s] = "except"]

\* sync_users lines 81-86: the next new user and next(card_iterator), or the
\* end of the loop and `return created_users`.
LoopHead(s) ==
    /\ pc[s] = "loop"
    /\ IF loc[s].d < Len(loc[s].new_users_data)
       THEN IF loc[s].card_iterator < Len(loc[s].all_credit_cards)
            THEN /\ loc' = [loc EXCEPT
                              ![s].d = @ + 1,
                              ![s].card_iterator = @ + 1,
                              ![s].faker_card_data =
                                  NextCard(loc[s].all_credit_cards, loc[s].card_iterator)]
                 /\ pc' = [pc EXCEPT ![s] = "create_address"]
                 /\ hist' = hist
            ELSE /\ Raise(s, "StopIteration")
                 /\ hist' = [hist EXCEPT ![s].op_exc = "StopIteration"]
       ELSE /\ pc' = [pc EXCEPT ![s] = "commit"]
            /\ hist' = Ends(s, "SUCCESS")
            /\ loc' = loc
    /\ UNCHANGED <<db, task, objs>>

\* A new object of a child table, added to the session: no id until a flush.
Staged(kind, data) == [kind |-> kind, id |-> 0, row |-> data, state |-> "pending"]

\* The record of the loop: d of `for d in new_users_data`.
CurrentUser(s) == loc[s].new_users_data[loc[s].d]

\* A bug: create_address is a get-or-create, an Address of the same content
\* is used again.
CreateAddress_GetOrCreate(s) ==
    /\ pc[s] = "create_address"
    /\ LET same == { j \in Indices(objs[s], "addresses") :
                       objs[s][j].row = CurrentUser(s).address }
       IN  IF same # {}
           THEN /\ loc' = [loc EXCEPT ![s].address = CHOOSE j \in same : TRUE]
                /\ objs' = objs
           ELSE /\ objs' = [objs EXCEPT ![s] =
                               Append(@, Staged("addresses", CurrentUser(s).address))]
                /\ loc' = [loc EXCEPT ![s].address = Len(objs[s]) + 1]
    /\ pc' = [pc EXCEPT ![s] = "create_company"]
    /\ hist' = Log(s, "create_address")
    /\ UNCHANGED <<db, task>>

\* sync_users line 88 and UsersRepository.create_address: a KeyError when the
\* nested address lacks a field, else the Address is added to the session.
CreateAddress(s) ==
    /\ pc[s] = "create_address"
    /\ \/ /\ Raise(s, "KeyError")
          /\ hist' = [Log(s, "create_address") EXCEPT ![s].op_exc = "KeyError"]
          /\ objs' = objs
       \/ /\ objs' = [objs EXCEPT ![s] = Append(@, Staged("addresses", CurrentUser(s).address))]
          /\ loc' = [loc EXCEPT ![s].address = Len(objs[s]) + 1]
          /\ pc' = [pc EXCEPT ![s] = "create_company"]
          /\ hist' = Log(s, "create_address")
    /\ UNCHANGED <<db, task>>

\* sync_users line 89 and UsersRepository.create_company.
CreateCompany(s) ==
    /\ pc[s] = "create_company"
    /\ \/ /\ Raise(s, "KeyError")
          /\ hist' = [Log(s, "create_company") EXCEPT ![s].op_exc = "KeyError"]
          /\ objs' = objs
       \/ /\ objs' = [objs EXCEPT ![s] = Append(@, Staged("companies", CurrentUser(s).company))]
          /\ loc' = [loc EXCEPT ![s].company = Len(objs[s]) + 1]
          /\ pc' = [pc EXCEPT ![s] = "create_credit_card"]
          /\ hist' = Log(s, "create_company")
    /\ UNCHANGED <<db, task>>

\* A bug: the CreditCard is made once and shared by the users that follow.
CreateCreditCard_Shared(s) ==
    /\ pc[s] = "create_credit_card"
    /\ LET cards == Indices(objs[s], "credit_cards")
       IN  IF cards # {}
           THEN /\ loc' = [loc EXCEPT ![s].credit_card =
                                  CHOOSE j \in cards : \A k \in cards : j <= k]
                /\ objs' = objs
           ELSE /\ objs' = [objs EXCEPT ![s] =
                               Append(@, [kind |-> "credit_cards", id |-> 0,
                                          row |-> loc[s].faker_card_data,
                                          state |-> "pending"])]
                /\ loc' = [loc EXCEPT ![s].credit_card = Len(objs[s]) + 1]
    /\ pc' = [pc EXCEPT ![s] = "flush"]
    /\ hist' = Log(s, "create_credit_card")
    /\ UNCHANGED <<db, task>>

\* A bug: flush_changes is missing between create_credit_card and create_user.
CreateCreditCard_NoFlush(s) ==
    /\ pc[s] = "create_credit_card"
    /\ objs' = [objs EXCEPT ![s] =
                   Append(@, [kind |-> "credit_cards", id |-> 0,
                              row |-> loc[s].faker_card_data, state |-> "pending"])]
    /\ loc' = [loc EXCEPT ![s].credit_card = Len(objs[s]) + 1]
    /\ pc' = [pc EXCEPT ![s] = "create_user"]
    /\ hist' = Log(s, "create_credit_card")
    /\ UNCHANGED <<db, task>>

\* data["number"] of create_credit_card works on a dict only.
IsCardDict(card_data) == "number" \in DOMAIN card_data

\* sync_users line 90 and UsersRepository.create_credit_card: a TypeError when
\* the item is not a dict, a KeyError when it lacks a field, else the
\* CreditCard is added to the session.
CreateCreditCard(s) ==
    /\ pc[s] = "create_credit_card"
    /\ \/ /\ ~IsCardDict(loc[s].faker_card_data)
          /\ Raise(s, "TypeError")
          /\ hist' = [Log(s, "create_credit_card") EXCEPT ![s].op_exc = "TypeError"]
          /\ objs' = objs
       \/ /\ IsCardDict(loc[s].faker_card_data)
          /\ Raise(s, "KeyError")
          /\ hist' = [Log(s, "create_credit_card") EXCEPT ![s].op_exc = "KeyError"]
          /\ objs' = objs
       \/ /\ IsCardDict(loc[s].faker_card_data)
          /\ objs' = [objs EXCEPT ![s] = Append(@, Staged("credit_cards", loc[s].faker_card_data))]
          /\ loc' = [loc EXCEPT ![s].credit_card = Len(objs[s]) + 1]
          /\ pc' = [pc EXCEPT ![s] = "flush"]
          /\ hist' = Log(s, "create_credit_card")
    /\ UNCHANGED <<db, task>>

\* A bug: flush_changes calls self.db.commit() where it should flush.
FlushChanges_Commits(s) ==
    /\ pc[s] = "flush"
    /\ LET fl == Flushed(objs[s], LastId)
       IN  /\ db' = WithRows(db, fl)
           /\ objs' = [objs EXCEPT ![s] = fl]
    /\ pc' = [pc EXCEPT ![s] = "create_user"]
    /\ hist' = Log(s, "flush_changes")
    /\ UNCHANGED <<task, loc>>

\* sync_users line 92 and UsersRepository.flush_changes: the database may be
\* unreachable (OperationalError); the child rows are inserted and draw their
\* ids; the INSERT of a pending User may be rejected (IntegrityError).
FlushChanges(s) ==
    /\ pc[s] = "flush"
    /\ \/ /\ Raise(s, "OperationalError")
          /\ hist' = [Log(s, "flush_changes") EXCEPT ![s].op_exc = "OperationalError"]
          /\ objs' = objs
       \/ LET fl == Flushed(objs[s], LastId)
          IN  /\ ~Blocked(s)
              /\ IF UserInsertRejected(objs[s], fl, db)
                 THEN /\ Raise(s, "IntegrityError")
                      /\ hist' = [Log(s, "flush_changes") EXCEPT
                                    ![s].op_exc = "IntegrityError"]
                      /\ objs' = objs
                 ELSE /\ objs' = [objs EXCEPT ![s] = fl]
                      /\ pc' = [pc EXCEPT ![s] = "create_user"]
                      /\ hist' = Log(s, "flush_changes")
                      /\ loc' = loc
    /\ UNCHANGED <<db, task>>

\* UsersRepository.create_user lines 80-90: the nested sub-objects are popped,
\* the remaining fields and the three foreign keys make the User.
NewUser(user_data, address_id, company_id, credit_card_id) ==
    [kind |-> "users", id |-> user_data.id,
     row |-> [name |-> user_data.name, address_id |-> address_id,
              company_id |-> company_id, credit_card_id |-> credit_card_id],
     state |-> "pending"]

\* sync_users lines 94-101 and UsersRepository.create_user: a TypeError when the
\* record has a field User does not, else the User is added to the session.
CreateUser(s) ==
    /\ pc[s] = "create_user"
    /\ \/ /\ Raise(s, "TypeError")
          /\ hist' = [Log(s, "create_user") EXCEPT ![s].op_exc = "TypeError"]
          /\ objs' = objs
       \/ /\ objs' = [objs EXCEPT ![s] =
                        Append(@, NewUser(CurrentUser(s),
                                          objs[s][loc[s].address].id,
                                          objs[s][loc[s].company].id,
                                          objs[s][loc[s].credit_card].id))]
          /\ loc' = [loc EXCEPT ![s].created_users = Append(@, Len(objs[s]) + 1)]
          /\ pc' = [pc EXCEPT ![s] = "loop"]
          /\ hist' = Log(s, "create_user")
    /\ UNCHANGED <<db, task>>

\* A bug: the except clause logs and does not re-raise; sync_users goes on to
\* `return created_users`.
Except_Swallow(s) ==
    /\ pc[s] = "except"
    /\ pc' = [pc EXCEPT ![s] = "commit"]
    /\ hist' = Ends(s, "SUCCESS")
    /\ UNCHANGED <<db, task, loc, objs>>

\* A bug: the except clause logs and returns an empty list.
Except_ReturnsEmpty(s) ==
    /\ pc[s] = "except"
    /\ pc' = [pc EXCEPT ![s] = "commit"]
    /\ hist' = Ends(s, "EMPTY")
    /\ UNCHANGED <<db, task, loc, objs>>

\* sync_users lines 106-112: except Exception as e: log, raise.
Except(s) ==
    /\ pc[s] = "except"
    /\ task' = [task EXCEPT ![s].exc = Reraise(loc[s].e)]
    /\ pc' = [pc EXCEPT ![s] = "rollback"]
    /\ hist' = Ends(s, "ABORTED")
    /\ UNCHANGED <<db, loc, objs>>

\* A bug: the status is formatted from a list that is still empty.
TaskResult_Zero(created_users) == [status |-> "ok", created |-> 0]

\* sync_users_task line 60: f"Total new users processed: {len(created_users)}".
TaskResult(created_users) == [status |-> "ok", created |-> Len(created_users)]

\* sync_users_task lines 53-60: session.commit() flushes what is pending and
\* commits; then the status string is returned. A session that ran no
\* statement holds no connection: its commit sends nothing and cannot fail.
Commit(s) ==
    /\ pc[s] = "commit"
    /\ \/ /\ hist[s].ops # <<>>
          /\ task' = [task EXCEPT ![s].exc = "OperationalError"]
          /\ pc' = [pc EXCEPT ![s] = "rollback"]
          /\ hist' = [hist EXCEPT ![s].commits = @ + 1]
          /\ UNCHANGED <<db, objs>>
       \/ LET fl == Flushed(objs[s], LastId)
          IN  /\ ~Blocked(s)
              /\ IF UserInsertRejected(objs[s], fl, db)
                 THEN /\ task' = [task EXCEPT ![s].exc = "IntegrityError"]
                      /\ pc' = [pc EXCEPT ![s] = "rollback"]
                      /\ hist' = [hist EXCEPT ![s].commits = @ + 1]
                      /\ UNCHANGED <<db, objs>>
                 ELSE /\ db' = WithRows(db, fl)
                      /\ objs' = [objs EXCEPT ![s] = <<>>]
                      /\ task' = [task EXCEPT ![s].result =
                                    TaskResult(loc[s].created_users)]
                      /\ hist' = [hist EXCEPT ![s].prev_committed = TRUE,
                                              ![s].prev_data = loc[s].users_data,
                                              ![s].commits = @ + 1]
                      /\ pc' = [pc EXCEPT ![s] = "idle"]
    /\ loc' = loc

\* A bug: the rows the session had flushed survive the rollback, as if every
\* flush had committed.
Rollback_KeepsObjects(s) ==
    /\ pc[s] = "rollback"
    /\ IF task[s].session
       THEN /\ hist' = [hist EXCEPT ![s].prev_committed = FALSE,
                                    ![s].rollbacks = @ + 1]
            /\ db' = WithRows(db, SelectSeq(objs[s], LAMBDA o : ~Pending(o)))
            /\ objs' = [objs EXCEPT ![s] = <<>>]
            /\ pc' = [pc EXCEPT ![s] = "retry"]
            /\ task' = task
       ELSE /\ task' = [task EXCEPT ![s].exc = "UnboundLocalError",
                                    ![s].result = [status |-> "failed", created |-> 0]]
            /\ hist' = [hist EXCEPT ![s].prev_committed = FALSE]
            /\ pc' = [pc EXCEPT ![s] = "idle"]
            /\ objs' = objs
            /\ db' = db
    /\ loc' = loc

\* sync_users_task lines 62-64: the session's transaction is rolled back.
\* When the name `session` was never bound, session.rollback() raises
\* UnboundLocalError out of the except clause: the task ends with that
\* exception and line 66 is not reached.
Rollback(s) ==
    /\ pc[s] = "rollback"
    /\ IF task[s].session
       THEN /\ objs' = [objs EXCEPT ![s] = <<>>]
            /\ hist' = [hist EXCEPT ![s].prev_committed = FALSE,
                                    ![s].rollbacks = @ + 1]
            /\ pc' = [pc EXCEPT ![s] = "retry"]
            /\ task' = task
       ELSE /\ task' = [task EXCEPT ![s].exc = "UnboundLocalError",
                                    ![s].result = [status |-> "failed", created |-> 0]]
            /\ hist' = [hist EXCEPT ![s].prev_committed = FALSE]
            /\ pc' = [pc EXCEPT ![s] = "idle"]
            /\ objs' = objs
    /\ UNCHANGED <<db, loc>>

\* sync_users_task line 66: self.retry re-runs the task while retries are
\* left, else the exception ends the task.
Retry(s) ==
    /\ pc[s] = "retry"
    /\ IF task[s].retries < MaxRetries
       THEN Begin(s, task[s].retries + 1)
       ELSE /\ task' = [task EXCEPT ![s].result = [status |-> "failed", created |-> 0]]
            /\ pc' = [pc EXCEPT ![s] = "idle"]
            /\ hist' = [hist EXCEPT ![s].retry_calls = @ + 1]
            /\ UNCHANGED <<loc, objs>>
    /\ UNCHANGED db

Next ==
    \E s \in Sessions :
        \/ TaskStart(s)
        \/ OpenSession(s)
        \/ GetUsers(s)
        \/ Diff(s)
        \/ GetCreditCards(s)
        \/ CheckCards(s)
        \/ LoopHead(s)
        \/ CreateAddress(s)
        \/ CreateCompany(s)
        \/ CreateCreditCard(s)
        \/ FlushChanges(s)
        \/ CreateUser(s)
        \/ Except(s)
        \/ Commit(s)
        \/ Rollback(s)
        \/ Retry(s)

Spec == Init /\ [][Next]_vars

\* The beat schedule fires every minute and a retry comes back after 60 s:
\* two executions may be in flight at once, each with a session of its own.
InitOverlap ==
    /\ db = EmptyTables
    /\ pc = [s \in Sessions |-> "idle"]
    /\ task = [s \in Sessions |-> InitTask]
    /\ loc = [s \in Sessions |-> InitLocals]
    /\ objs = [s \in Sessions |-> <<>>]
    /\ hist = [s \in Sessions |-> InitHist]

\* Retries the first of two overlapping executions is followed through.
OverlapRetries == 1

\* The part of the overlap that is explored: each of the two executions is one
\* firing of the schedule, the first with its retries up to OverlapRetries, the
\* second a first attempt; the directory records differ in their id only and
\* the card records not at all. What the executions do with the store, and
\* every failure they can meet, is left as it is.
OverlapScope(s) ==
    /\ (pc[s] = "idle" /\ pc'[s] = "open") => task[s].result.status = "none"
    /\ task'[s].retries <= (IF s = 1 THEN OverlapRetries ELSE 0)
    /\ \A i \in DOMAIN loc'[s].users_data : loc'[s].users_data[i].name = "n1"
    /\ (hist'[s].cc_resp.status = "ok" /\ hist'[s].cc_resp.json.isarray)
          => \A i \in DOMAIN hist'[s].cc_resp.json.data :
                 hist'[s].cc_resp.json.data[i].number = "c1"

NextOverlap == Next /\ \A s \in Sessions : OverlapScope(s)

SpecOverlap == InitOverlap /\ [][NextOverlap]_vars

----------------------------------------------------------------------------
(* Properties.                                                             *)

\* The repository operations of an execution that stage or write rows.
Writes(s) == SelectSeq(hist[s].ops, LAMBDA op : op # "get_user_by_id")

\* Positions of sync_users after the call of get_credit_cards, and of the task
\* after sync_users, until the execution is over.
AfterCardsCall ==
    {"check", "loop", "create_address", "create_company", "create_credit_card",
     "flush", "create_user", "except", "commit", "rollback", "retry", "idle"}

\* C1. Batch-call invariant: a pass that finds K >= 1 new users calls
\* get_credit_cards exactly once, with quantity K; no pass calls it twice.
C1_BatchCall ==
    \A s \in Sessions :
        LET K == Len(loc[s].new_users_data)
        IN  /\ Len(hist[s].cc_calls) <= 1
            /\ (K >= 1 /\ pc[s] \in AfterCardsCall) => hist[s].cc_calls = <<K>>
            /\ (K >= 1 /\ pc[s] = "get_credit_cards") => hist[s].cc_calls = <<>>

\* Two new users, the create loop running, one call with quantity 2 made.
C1_Witness ==
    \E s \in Sessions :
        /\ pc[s] = "create_user"
        /\ Len(loc[s].new_users_data) = 2
        /\ hist[s].cc_calls = <<2>>

\* C2. Fail-fast atomicity: when get_credit_cards returns fewer than K records
\* for K new users, sync_users raises the insufficiency error before any
\* create_* or flush call: no row of the pass is staged or committed.
C2_FailFast ==
    \A s \in Sessions :
        ( /\ hist[s].cc_calls # <<>>
          /\ pc[s] # "check"
          /\ Len(loc[s].all_credit_cards) < Len(loc[s].new_users_data) )
        => /\ hist[s].outcome = "ABORTED"
           /\ task[s].exc = "InsufficientCards"
           /\ pc[s] \in {"rollback", "retry", "idle"}
           /\ Writes(s) = <<>>
           /\ objs[s] = <<>>
           /\ db = hist[s].db0

\* Two new users and one card returned: the pass has raised.
C2_Witness ==
    \E s \in Sessions :
        /\ pc[s] = "rollback"
        /\ Len(loc[s].new_users_data) = 2
        /\ Len(loc[s].all_credit_cards) = 1
        /\ task[s].exc = "InsufficientCards"

\* C3. Idempotence: a pass that fetches the listing of the committed pass
\* before it finds no new user: it returns an empty list and creates nothing.
C3_Idempotent ==
    \A s \in Sessions :
        (hist[s].rerun /\ pc[s] # "diff")
        => /\ hist[s].outcome = "EMPTY"
           /\ loc[s].new_users_data = <<>>
           /\ loc[s].created_users = <<>>
           /\ hist[s].cc_calls = <<>>
           /\ Writes(s) = <<>>
           /\ objs[s] = <<>>
           /\ db = hist[s].db0

\* The second run over a listing of two users has returned.
C3_Witness ==
    \E s \in Sessions :
        /\ hist[s].rerun
        /\ Len(loc[s].users_data) = 2
        /\ DOMAIN db.users = {1, 2}
        /\ pc[s] = "commit"

\* C4. Skip-existing: when every id of a non-empty listing is in the store,
\* the pass returns an empty list, the card client is never called and no
\* create_* or flush operation is performed.
AllStored(s) ==
    /\ loc[s].users_data # <<>>
    /\ \A i \in 1..Len(loc[s].users_data) :
           loc[s].users_data[i].id \in DOMAIN hist[s].db0.users

C4_SkipExisting ==
    \A s \in Sessions :
        (AllStored(s) /\ pc[s] \notin {"diff", "get_users", "off"})
        => /\ hist[s].outcome = "EMPTY"
           /\ pc[s] \in {"commit", "rollback", "retry", "idle"}
           /\ loc[s].created_users = <<>>
           /\ hist[s].cc_calls = <<>>
           /\ Writes(s) = <<>>
           /\ objs[s] = <<>>
           /\ (pc[s] = "idle" /\ task[s].result.status = "ok"
                  => task[s].result.created = 0)

\* User 1 is stored and fetched again under another name: the task has
\* committed and reports zero created users.
C4_Witness ==
    \E s \in Sessions :
        /\ AllStored(s)
        /\ pc[s] = "idle"
        /\ task[s].result = [status |-> "ok", created |-> 0]
        /\ Len(loc[s].users_data) = 1
        /\ db.users[loc[s].users_data[1].id].name # loc[s].users_data[1].name

\* Positions at which the session still holds the objects of the pass.
InPass ==
    {"loop", "create_address", "create_company", "create_credit_card",
     "flush", "create_user", "except", "commit", "rollback"}

\* The j-th object of the session is the n-th CreditCard the pass added.
IsNthCard(os, j, n) ==
    /\ j \in Indices(os, "credit_cards")
    /\ Cardinality({ k \in Indices(os, "credit_cards") : k <= j }) = n

\* C5. Positional pairing: the User created for the i-th new user is linked to
\* the CreditCard created from the i-th record get_credit_cards returned, and
\* no card is linked to two users.
C5_PositionalPairing ==
    \A s \in Sessions :
        LET os == objs[s]
            created == loc[s].created_users
        IN  /\ pc[s] \in InPass =>
                 /\ \A i \in 1..Len(created) :
                        /\ os[created[i]].kind = "users"
                        /\ os[created[i]].id = loc[s].new_users_data[i].id
                        /\ \E j \in 1..Len(os) :
                               /\ IsNthCard(os, j, i)
                               /\ os[j].row = loc[s].all_credit_cards[i]
                               /\ os[j].id # 0
                               /\ os[created[i]].row.credit_card_id = os[j].id
                 /\ \A i, k \in 1..Len(created) :
                        i # k => os[created[i]].row.credit_card_id
                                    # os[created[k]].row.credit_card_id
            /\ (pc[s] = "idle" /\ task[s].result.status = "ok") =>
                 \A i \in 1..Len(created) :
                     LET id == loc[s].new_users_data[i].id
                     IN  /\ id \in DOMAIN db.users
                         /\ db.users[id].credit_card_id \in DOMAIN db.credit_cards
                         /\ db.credit_cards[db.users[id].credit_card_id]
                                = loc[s].all_credit_cards[i]

\* Two users were created in one pass from two different cards, and committed.
C5_Witness ==
    \E s \in Sessions :
        /\ pc[s] = "idle"
        /\ task[s].result = [status |-> "ok", created |-> 2]
        /\ loc[s].all_credit_cards[1] # loc[s].all_credit_cards[2]

\* C6. Empty-upstream handling: when the directory client returns an empty
\* sequence the pass ends in EMPTY: an empty list returned, nothing raised, no
\* lookup, create or flush, no card request.
C6_EmptyUpstream ==
    \A s \in Sessions :
        ( /\ loc[s].users_data = <<>>
          /\ hist[s].calls = 1
          /\ pc[s] # "get_users" )
        => /\ hist[s].outcome = "EMPTY"
           /\ pc[s] \in {"commit", "rollback", "retry", "idle"}
           /\ loc[s].created_users = <<>>
           /\ hist[s].ops = <<>>
           /\ hist[s].cc_calls = <<>>
           /\ objs[s] = <<>>
           /\ task[s].exc \in {"none", "OperationalError"}
           /\ (pc[s] = "commit" => task[s].exc = "none")

\* The directory answered with an empty array (no failure) and the pass returned.
C6_Witness ==
    \E s \in Sessions :
        /\ pc[s] = "commit"
        /\ loc[s].users_data = <<>>
        /\ ~hist[s].dir_err

\* new is the subsequence of all, in order, of the records whose id is not in ids.
IsNewSubsequence(new, all, ids) ==
    LET keep == { j \in 1..Len(all) : all[j].id \notin ids }
    IN  /\ Len(new) = Cardinality(keep)
        /\ \A i \in 1..Len(new) :
               \E j \in keep : /\ Cardinality({ k \in keep : k <= j }) = i
                               /\ new[i] = all[j]

\* C7. new_users_data is the fetched records whose id the store does not hold,
\* in fetch order, and a SUCCESS pass returns one created User per new record,
\* in that order.
C7_NewUsersInOrder ==
    \A s \in Sessions :
        /\ pc[s] \notin {"diff"} =>
               IsNewSubsequence(loc[s].new_users_data, loc[s].users_data,
                                DOMAIN hist[s].db0.users)
        /\ (pc[s] = "commit" /\ hist[s].outcome = "SUCCESS") =>
               /\ Len(loc[s].created_users) = Len(loc[s].new_users_data)
               /\ Len(loc[s].created_users) >= 1
               /\ \A i \in 1..Len(loc[s].created_users) :
                      LET u == objs[s][loc[s].created_users[i]]
                      IN  /\ u.kind = "users"
                          /\ u.id = loc[s].new_users_data[i].id
                          /\ u.row.name = loc[s].new_users_data[i].name

\* Users 2 and 1 were fetched in that order, both new, and the pass returned them.
C7_Witness ==
    \E s \in Sessions :
        /\ pc[s] = "commit"
        /\ hist[s].outcome = "SUCCESS"
        /\ Len(loc[s].users_data) = 2
        /\ loc[s].users_data[1].id = 2
        /\ loc[s].users_data[2].id = 1
        /\ Len(loc[s].created_users) = 2

TableNames == {"users", "addresses", "companies", "credit_cards"}

\* Every committed row is still there after the step, unchanged.
RowsKept ==
    \A k \in TableNames :
        \A id \in DOMAIN db[k] : id \in DOMAIN db'[k] /\ db'[k][id] = db[k][id]

\* No session holds a User whose id the store held when its execution began.
CreatedOnlyIfAbsent ==
    \A s \in Sessions :
        \A j \in Indices(objs[s], "users") :
            objs[s][j].id \notin DOMAIN hist[s].db0.users

\* C8. Existing users are immutable: no step of any pass changes or deletes a
\* committed row, and a User is created only for an id the store does not hold.
C8_ExistingImmutable == [][RowsKept]_vars /\ []CreatedOnlyIfAbsent

\* User 1 is stored; a pass that fetched it under another name next to the new
\* user 2 is in its create loop.
C8_Witness ==
    \E s \in Sessions :
        /\ pc[s] = "loop"
        /\ DOMAIN db.users = {1}
        /\ Len(loc[s].users_data) = 2
        /\ \E i \in 1..2 : /\ loc[s].users_data[i].id = 1
                           /\ loc[s].users_data[i].name # db.users[1].name
        /\ Len(loc[s].created_users) = 1

\* C9 as stated: a network or HTTP failure of either client reaches sync_users
\* as an empty result and the pass ends in EMPTY, sync_users raising nothing.
C9_AsStated ==
    \A s \in Sessions :
        /\ hist[s].dir_err => loc[s].users_data = <<>>
        /\ hist[s].cc_err => loc[s].all_credit_cards = <<>>
        /\ (hist[s].dir_err \/ hist[s].cc_err) => hist[s].outcome \in {"none", "EMPTY"}

\* C9, amended. A network or HTTP failure of either client is absorbed by the
\* client and reaches sync_users as an empty result. After a failure of the
\* directory client the pass ends in EMPTY and sync_users raises nothing.
\* After a failure of the card client (called only with K >= 1 new users) the
\* empty result fails the sufficiency check: sync_users raises the
\* insufficiency error, before any create or flush.
C9_FailureAbsorbed ==
    \A s \in Sessions :
        /\ hist[s].dir_err =>
               /\ loc[s].users_data = <<>>
               /\ hist[s].outcome = "EMPTY"
               /\ hist[s].ops = <<>>
               /\ (pc[s] = "commit" => task[s].exc = "none")
        /\ hist[s].cc_err =>
               /\ loc[s].all_credit_cards = <<>>
               /\ Len(loc[s].new_users_data) >= 1
               /\ \/ pc[s] = "check" /\ task[s].exc = "none" /\ hist[s].outcome = "none"
                  \/ /\ pc[s] \in {"rollback", "retry", "idle"}
                     /\ hist[s].outcome = "ABORTED"
                     /\ task[s].exc = "InsufficientCards"
                     /\ Writes(s) = <<>>
                     /\ objs[s] = <<>>

\* The card request failed for two new users and sync_users has raised.
C9_Witness ==
    \E s \in Sessions :
        /\ hist[s].cc_err
        /\ pc[s] = "rollback"
        /\ Len(loc[s].new_users_data) = 2

\* C10. No row survives a partial pass: when a store operation of the create
\* loop raises, sync_users raises that same exception, and after the task's
\* rollback the session holds nothing and the committed rows are those the
\* pass began with.
C10_NoPartialPass ==
    \A s \in Sessions :
        hist[s].op_exc # "none" =>
            /\ db = hist[s].db0
            /\ pc[s] \in {"except", "rollback", "retry", "idle"}
            /\ pc[s] # "except" =>
                   /\ task[s].exc = hist[s].op_exc
                   /\ hist[s].outcome = "ABORTED"
            /\ pc[s] \in {"retry", "idle"} => objs[s] = <<>>

\* The loop failed on the second of two new users, after the first was
\* flushed and staged, and the task has rolled back.
C10_Witness ==
    \E s \in Sessions :
        /\ hist[s].op_exc # "none"
        /\ pc[s] = "retry"
        /\ Len(loc[s].new_users_data) = 2
        /\ Len(loc[s].created_users) = 1
        /\ "flush_changes" = hist[s].ops[Len(hist[s].ops)]

----------------------------------------------------------------------------
(* The task: commit, rollback, retry.                                      *)

\* sync_users has returned normally to the task.
Returned(s) == hist[s].outcome \in {"EMPTY", "SUCCESS"}

\* C11 as stated: whenever sync_users returns normally with N created users,
\* the task calls sync_users once, commits once after it, performs no rollback
\* and no retry, and returns the status with N.
C11_AsStated ==
    \A s \in Sessions :
        Returned(s) =>
            /\ hist[s].calls = 1
            /\ hist[s].commits <= 1
            /\ hist[s].rollbacks = 0
            /\ hist[s].retry_calls = 0
            /\ pc[s] \in {"commit", "idle"}
            /\ pc[s] = "idle" =>
                   /\ hist[s].commits = 1
                   /\ task[s].result = [status |-> "ok",
                                        created |-> Len(loc[s].created_users)]

\* C11, amended. Whenever sync_users returns normally with N created users,
\* the task has called sync_users exactly once and calls session.commit
\* exactly once, after it. When that commit succeeds, the task performs no
\* rollback and no retry and returns the status with N. When the commit
\* raises, the task returns no status: it rolls back and requests a retry.
C11_SuccessPath ==
    \A s \in Sessions :
        Returned(s) =>
            /\ hist[s].calls = 1
            /\ pc[s] \in {"commit", "rollback", "retry", "idle"}
            /\ pc[s] = "commit" =>
                   /\ hist[s].commits = 0
                   /\ hist[s].rollbacks = 0
                   /\ task[s].exc = "none"
            /\ pc[s] # "commit" => hist[s].commits = 1
            /\ (pc[s] = "idle" /\ task[s].exc = "none") =>
                   /\ hist[s].rollbacks = 0
                   /\ hist[s].retry_calls = 0
                   /\ task[s].result = [status |-> "ok",
                                        created |-> Len(loc[s].created_users)]
            /\ task[s].exc # "none" =>
                   /\ task[s].exc \in {"OperationalError", "IntegrityError"}
                   /\ pc[s] \in {"rollback", "retry", "idle"}
                   /\ task[s].result.status # "ok"
                   /\ pc[s] \in {"retry", "idle"} => hist[s].rollbacks = 1
                   /\ pc[s] = "idle" => hist[s].retry_calls = 1

\* sync_users returned two created users; the task committed and reported 2.
C11_Witness ==
    \E s \in Sessions :
        /\ hist[s].outcome = "SUCCESS"
        /\ pc[s] = "idle"
        /\ hist[s].commits = 1
        /\ task[s].result = [status |-> "ok", created |-> 2]

\* C12. Failure path: on any error raised during an execution (opening the
\* session, sync_users, the commit) the task rolls back the session and then
\* requests a retry; it never commits after an error, and never ends an
\* execution without a commit or a rollback followed by a retry request.
C12_FailurePath ==
    \A s \in Sessions :
        /\ task[s].exc # "none" =>
               /\ pc[s] \in {"rollback", "retry", "idle"}
               /\ task[s].result.status # "ok"
        /\ pc[s] = "retry" =>
               /\ task[s].exc # "none"
               /\ hist[s].rollbacks = 1
        /\ (pc[s] = "idle" /\ task[s].result.status # "none") =>
               \/ /\ task[s].result.status = "ok"
                  /\ task[s].exc = "none"
                  /\ hist[s].commits = 1
                  /\ hist[s].rollbacks = 0
               \/ /\ task[s].result.status = "failed"
                  /\ hist[s].rollbacks = 1
                  /\ hist[s].retry_calls = 1

\* A step of the execution in flight of session s: every action but the
\* beat schedule's.
Step(s) ==
    \/ OpenSession(s)
    \/ GetUsers(s)
    \/ Diff(s)
    \/ GetCreditCards(s)
    \/ CheckCards(s)
    \/ LoopHead(s)
    \/ CreateAddress(s)
    \/ CreateCompany(s)
    \/ CreateCreditCard(s)
    \/ FlushChanges(s)
    \/ CreateUser(s)
    \/ Except(s)
    \/ Commit(s)
    \/ Rollback(s)
    \/ Retry(s)

\* The worker runs an execution it has started to its end, and a retry that
\* was requested is delivered after its countdown.
SpecFair == Spec /\ \A s \in Sessions : WF_vars(Step(s))

\* The executions of one tick: the first one and one per retry so far.
Executions(s) == task[s].retries + 1

\* A tick that was started comes to an end (checked under SpecFair).
TickTerminates == \A s \in Sessions : (pc[s] = "open") ~> (pc[s] = "idle")

\* C13. Bounded retry and termination: one tick executes the pass at most 4
\* times (the first attempt and max_retries = 3 retries) and ends either with
\* a committed success or permanently failed after the retries are exhausted.
C13_BoundedRetry ==
    \A s \in Sessions :
        /\ Executions(s) <= MaxRetries + 1
        /\ hist[s].calls <= 1
        /\ (pc[s] = "idle" /\ task[s].result.status = "ok") =>
               hist[s].commits = 1
        /\ (pc[s] = "idle" /\ task[s].result.status = "failed") =>
               /\ Executions(s) = MaxRetries + 1
               /\ hist[s].retry_calls = 1

\* Positions inside sync_users.
InSyncUsers ==
    {"get_users", "diff", "get_credit_cards", "check", "loop", "create_address",
     "create_company", "create_credit_card", "flush", "create_user", "except"}

\* The step changes the committed rows only as the commit of a task whose
\* sync_users has returned.
OnlyTaskCommits ==
    db' # db =>
        \E s \in Sessions :
            /\ pc[s] = "commit"
            /\ Returned(s)
            /\ hist'[s].commits = hist[s].commits + 1
            /\ pc'[s] = "idle"

\* A step taken inside sync_users commits nothing and rolls nothing back: the
\* committed rows stay, and so does every object the session holds.
NoCommitNoRollbackInside ==
    \A s \in Sessions :
        pc[s] \in InSyncUsers =>
            /\ db' = db
            /\ hist'[s].commits = hist[s].commits
            /\ hist'[s].rollbacks = hist[s].rollbacks
            /\ Len(objs'[s]) >= Len(objs[s])
            /\ \A j \in 1..Len(objs[s]) :
                   /\ objs'[s][j].kind = objs[s][j].kind
                   /\ objs'[s][j].row = objs[s][j].row

\* C14. Transaction ownership: no repository operation and no step of
\* sync_users commits or rolls back; the committed store is unchanged by
\* sync_users and changes only when the task commits after sync_users returned.
C14_TransactionOwnership == [][OnlyTaskCommits /\ NoCommitNoRollbackInside]_vars

\* The task has committed the two users a pass flushed and staged: the
\* committed rows differ from those the execution began with.
C14_Witness ==
    \E s \in Sessions :
        /\ pc[s] = "idle"
        /\ hist[s].commits = 1
        /\ hist[s].outcome = "SUCCESS"
        /\ Len(SelectSeq(hist[s].ops, LAMBDA op : op = "flush_changes")) = 2
        /\ db # hist[s].db0

\* The rows of the users table a session sees: the committed ones and the
\* Users it has created, each with its credit_card_id (0 is NULL).
CardLinks(s) ==
    { <<"row", u, db.users[u].credit_card_id>> : u \in DOMAIN db.users }
    \cup { <<"object", j, objs[s][j].row.credit_card_id>> :
             j \in Indices(objs[s], "users") }

\* C15. One-to-one credit card: in every reachable state of the store, after
\* any sequence of passes, no two User rows (committed, or created by the pass
\* in flight) have the same non-null credit_card_id.
C15_OneToOneCard ==
    \A s \in Sessions :
        \A a, b \in CardLinks(s) :
            (a # b /\ a[3] # 0) => a[3] # b[3]

\* Two committed users, each with a card, committed by two passes one after
\* the other.
C15_Witness ==
    /\ Cardinality(DOMAIN db.users) = 2
    /\ \A u \in DOMAIN db.users : db.users[u].credit_card_id # 0
    /\ \E s \in Sessions :
           /\ pc[s] = "idle"
           /\ task[s].result.status = "ok"
           /\ Cardinality(DOMAIN hist[s].db0.users) = 1

\* The ids of the rows of one table that a session holds.
IdsHeld(s, kind) == { objs[s][j].id : j \in Indices(objs[s], kind) }

\* C16. Per-user entity creation without deduplication: a successful pass
\* with K new users creates exactly K Address, K Company, K CreditCard and K
\* User rows; each Address, Company and CreditCard is a fresh row with an id
\* of its own, also when two new users carry the same address or company.
C16_OneRowPerUser ==
    \A s \in Sessions :
        LET K == Len(loc[s].new_users_data)
        IN  hist[s].outcome = "SUCCESS" =>
              /\ K >= 1
              /\ pc[s] = "commit" =>
                     /\ \A kind \in TableNames :
                            Cardinality(Indices(objs[s], kind)) = K
                     /\ \A kind \in ChildKinds :
                            /\ Cardinality(IdsHeld(s, kind)) = K
                            /\ 0 \notin IdsHeld(s, kind)
                            /\ IdsHeld(s, kind) \cap DOMAIN db[kind] = {}
              /\ (pc[s] = "idle" /\ task[s].result.status = "ok") =>
                     \A kind \in TableNames :
                         Cardinality(DOMAIN db[kind])
                             = Cardinality(DOMAIN hist[s].db0[kind]) + K

\* Two new users with the same address and the same company were committed:
\* two Address rows and two Company rows of equal content.
C16_Witness ==
    \E s \in Sessions :
        /\ hist[s].outcome = "SUCCESS"
        /\ pc[s] = "idle"
        /\ task[s].result = [status |-> "ok", created |-> 2]
        /\ loc[s].new_users_data[1].address = loc[s].new_users_data[2].address
        /\ loc[s].new_users_data[1].company = loc[s].new_users_data[2].company
        /\ \E a, b \in DOMAIN db.addresses : a # b /\ db.addresses[a] = db.addresses[b]

----------------------------------------------------------------------------
(* The clients.                                                            *)

\* get_credit_cards has been called and has returned.
CardsReturned(s) == hist[s].cc_calls # <<>>

\* The response is the envelope: a dict with a "data" entry.
IsEnvelope(response) ==
    response.status = "ok" /\ response.json.isdict /\ response.json.haskey

\* The response is the envelope the API documents: "data" is an array.
IsArrayEnvelope(response) == IsEnvelope(response) /\ response.json.isarray

\* C17 as stated: get_credit_cards(quantity) returns at most quantity records,
\* for every quantity and every response of the card API (here: every
\* response that is a failure or carries an array).
C17_AsStated ==
    \A s \in Sessions :
        (CardsReturned(s) /\ (IsEnvelope(hist[s].cc_resp)
                                 => IsArrayEnvelope(hist[s].cc_resp)))
        => Len(loc[s].all_credit_cards) <= hist[s].cc_calls[1]

\* C17, amended. get_credit_cards(quantity) returns an empty sequence or the
\* "data" of the response envelope as it is, never cut to quantity: the result
\* has at most quantity records whenever the API answered with at most
\* quantity records. A quantity of 0 or less gives an empty sequence.
C17_ReturnsDataUncut ==
    /\ \A q \in {-1, 0} : \A r \in CardResponses(1) :
           get_credit_cards(q, r) = [exc |-> "none", value |-> <<>>, gets |-> 0]
    /\ \A s \in Sessions :
           CardsReturned(s) =>
               LET quantity == hist[s].cc_calls[1]
                   response == hist[s].cc_resp
                   result == loc[s].all_credit_cards
               IN  /\ quantity >= 1
                   /\ IF IsEnvelope(response)
                      THEN /\ result = response.json.data
                           /\ Len(response.json.data) <= quantity
                                  => Len(result) <= quantity
                      ELSE result = <<>>

\* The API answered a request for one card with two, and both were returned.
C17_Witness ==
    \E s \in Sessions :
        /\ pc[s] = "check"
        /\ hist[s].cc_calls = <<1>>
        /\ IsArrayEnvelope(hist[s].cc_resp)
        /\ Len(loc[s].all_credit_cards) = 2

\* C18. The card client accepts only an envelope object with a "data" array:
\* for any other response shape (not an object, "data" missing, "data" empty,
\* "data" not an array) get_credit_cards returns an empty sequence and does
\* not raise.
C18_EnvelopeOnly ==
    \A s \in Sessions :
        ( /\ CardsReturned(s)
          /\ hist[s].cc_resp.status = "ok"
          /\ \/ ~IsArrayEnvelope(hist[s].cc_resp)
             \/ hist[s].cc_resp.json.data = <<>> )
        => /\ loc[s].all_credit_cards = <<>>
           /\ pc[s] = "check" => task[s].exc = "none"

\* The shapes the guard of get_credit_cards does reject: not an object, "data"
\* missing, "data" empty or an empty string.
RejectedShapes ==
    \A s \in Sessions :
        ( /\ CardsReturned(s)
          /\ hist[s].cc_resp.status = "ok"
          /\ \/ ~IsEnvelope(hist[s].cc_resp)
             \/ hist[s].cc_resp.json.data = <<>> )
        => /\ loc[s].all_credit_cards = <<>>
           /\ pc[s] = "check" => task[s].exc = "none"

\* C19. Clients never raise: on any network or HTTP failure of the request,
\* get_users returns an empty sequence and get_credit_cards returns an empty
\* sequence; neither lets the exception reach sync_users, and neither repeats
\* the request.
C19_ClientsAbsorb ==
    \A s \in Sessions :
        /\ task[s].exc \notin HttpFailures
        /\ hist[s].dir_gets <= 1
        /\ hist[s].cc_gets <= 1
        /\ hist[s].dir_err =>
               /\ loc[s].users_data = <<>>
               /\ hist[s].dir_gets = 1
               /\ hist[s].cc_gets = 0
               /\ hist[s].outcome = "EMPTY"
        /\ hist[s].cc_err =>
               /\ loc[s].all_credit_cards = <<>>
               /\ hist[s].cc_gets = 1
               /\ hist[s].dir_gets = 1
               /\ pc[s] = "check" => task[s].exc = "none" /\ hist[s].outcome = "none"
               /\ pc[s] # "check" => task[s].exc = "InsufficientCards"

\* The directory request failed; get_users returned [] after one request and
\* sync_users returned normally.
C19_Witness ==
    \E s \in Sessions :
        /\ hist[s].dir_err
        /\ hist[s].dir_gets = 1
        /\ pc[s] = "commit"
        /\ task[s].exc = "none"

----------------------------------------------------------------------------
(* The create loop.                                                        *)

\* The repository calls of one round of the loop, in the order of lines 88-94.
LoopOrder ==
    <<"create_address", "create_company", "create_credit_card",
      "flush_changes", "create_user">>

\* The j-th object of the session is the n-th object of its table.
IsNth(os, j, n) ==
    Cardinality({ k \in Indices(os, os[j].kind) : k <= j }) = n

\* C20. Create-loop ordering: for each new user the calls are create_address,
\* create_company, create_credit_card, flush_changes, create_user, in that
\* order; create_user is called only after the flush that gave the user's
\* Address, Company and CreditCard their ids; the users are processed one
\* after another in fetch order, after all lookups.
C20_LoopOrdering ==
    \A s \in Sessions :
        LET ops == hist[s].ops
            writes == Writes(s)
            lookups == Len(ops) - Len(writes)
            os == objs[s]
            created == loc[s].created_users
        IN  /\ \A i \in 1..Len(ops) : (ops[i] = "get_user_by_id") <=> (i <= lookups)
            /\ \A i \in 1..Len(writes) : writes[i] = LoopOrder[((i - 1) % 5) + 1]
            /\ pc[s] \in InPass =>
                   /\ Len(created) = Len(SelectSeq(ops, LAMBDA op : op = "create_user"))
                                       - (IF pc[s] \in {"except", "rollback"}
                                             /\ hist[s].op_exc = "TypeError"
                                             /\ ops[Len(ops)] = "create_user"
                                          THEN 1 ELSE 0)
                   /\ \A i \in 1..Len(created) :
                          LET u == os[created[i]]
                          IN  /\ u.id = loc[s].new_users_data[i].id
                              /\ \A k \in 1..Len(created) : i < k => created[i] < created[k]
                              /\ \E a, c, cc \in 1..(created[i] - 1) :
                                     /\ os[a].kind = "addresses" /\ IsNth(os, a, i)
                                     /\ os[c].kind = "companies" /\ IsNth(os, c, i)
                                     /\ os[cc].kind = "credit_cards" /\ IsNth(os, cc, i)
                                     /\ os[a].state = "persistent" /\ os[a].id # 0
                                     /\ os[c].state = "persistent" /\ os[c].id # 0
                                     /\ os[cc].state = "persistent" /\ os[cc].id # 0
                                     /\ u.row.address_id = os[a].id
                                     /\ u.row.company_id = os[c].id
                                     /\ u.row.credit_card_id = os[cc].id
                                     /\ os[a].row = loc[s].new_users_data[i].address
                                     /\ os[c].row = loc[s].new_users_data[i].company

\* Both rounds of a pass with two new users are done.
C20_Witness ==
    \E s \in Sessions :
        /\ pc[s] = "commit"
        /\ hist[s].outcome = "SUCCESS"
        /\ Writes(s) = LoopOrder \o LoopOrder

----------------------------------------------------------------------------
(* The sufficiency check and the ends of a pass.                           *)

\* Positions after the sufficiency check of line 68.
AfterCheck == AfterCardsCall \ {"check"}

\* C21. The sufficiency check is strict: the pass aborts with the
\* insufficiency error if and only if fewer than K records were returned; with
\* K records it proceeds; with more than K it proceeds, uses the first K in
\* order and creates exactly K CreditCard rows, the surplus unused.
C21_StrictSufficiency ==
    \A s \in Sessions :
        LET K == Len(loc[s].new_users_data)
            cards == loc[s].all_credit_cards
            held == Indices(objs[s], "credit_cards")
        IN  (CardsReturned(s) /\ pc[s] \in AfterCheck) =>
              /\ (task[s].exc = "InsufficientCards") <=> (Len(cards) < K)
              /\ Len(cards) < K => Writes(s) = <<>>
              /\ Len(cards) >= K =>
                     /\ hist[s].outcome = "ABORTED" => hist[s].op_exc # "none"
                     /\ pc[s] \in InPass =>
                            /\ Cardinality(held) <= K
                            /\ loc[s].card_iterator <= K
                            /\ \A j \in held : \E i \in 1..K :
                                   IsNthCard(objs[s], j, i) /\ objs[s][j].row = cards[i]
                     /\ (hist[s].outcome = "SUCCESS" /\ pc[s] = "commit") =>
                            /\ Cardinality(held) = K
                            /\ loc[s].card_iterator = K
                     /\ (hist[s].outcome = "SUCCESS" /\ pc[s] = "idle"
                            /\ task[s].result.status = "ok") =>
                            Cardinality(DOMAIN db.credit_cards)
                                = Cardinality(DOMAIN hist[s].db0.credit_cards) + K

\* One new user, two cards returned: the pass went on, created one
\* CreditCard from the first record and was committed.
C21_Witness ==
    \E s \in Sessions :
        /\ hist[s].outcome = "SUCCESS"
        /\ pc[s] = "idle"
        /\ task[s].result = [status |-> "ok", created |-> 1]
        /\ Len(loc[s].new_users_data) = 1
        /\ Len(loc[s].all_credit_cards) = 2
        /\ loc[s].all_credit_cards[1] # loc[s].all_credit_cards[2]
        /\ \E c \in DOMAIN db.credit_cards :
               /\ c \notin DOMAIN hist[s].db0.credit_cards
               /\ db.credit_cards[c] = loc[s].all_credit_cards[1]

\* How a pass that was started stands: running, or ended in one of the three
\* terminal states with what that state says.
TerminalStates ==
    \A s \in Sessions :
        LET K == Len(loc[s].new_users_data)
        IN  /\ hist[s].outcome \in {"none", "EMPTY", "ABORTED", "SUCCESS"}
            /\ (hist[s].calls = 1 /\ pc[s] \in InSyncUsers) => hist[s].outcome = "none"
            /\ (hist[s].calls = 1 /\ pc[s] \notin InSyncUsers) => hist[s].outcome # "none"
            /\ hist[s].calls = 0 => hist[s].outcome = "none"
            /\ hist[s].outcome = "EMPTY" =>
                   /\ loc[s].created_users = <<>>
                   /\ Writes(s) = <<>>
                   /\ objs[s] = <<>>
                   /\ pc[s] = "commit" => task[s].exc = "none"
            /\ hist[s].outcome = "ABORTED" =>
                   /\ task[s].exc # "none"
                   /\ pc[s] \in {"rollback", "retry", "idle"}
                   /\ task[s].result.status # "ok"
            /\ hist[s].outcome = "SUCCESS" =>
                   /\ K >= 1
                   /\ Len(loc[s].created_users) = K
                   /\ CardsReturned(s)
                   /\ ~Insufficient(loc[s].all_credit_cards, K)
                   /\ pc[s] = "commit" => task[s].exc = "none"
            /\ Writes(s) # <<>> => hist[s].outcome # "EMPTY"

\* The terminal state of a pass, once reached, stays what it is until the
\* next execution begins.
OutcomeStays ==
    \A s \in Sessions :
        (hist[s].outcome # "none" /\ pc'[s] # "open")
        => hist'[s].outcome = hist[s].outcome

\* A pass that was started reaches a terminal state (under SpecFair).
PassTerminates ==
    \A s \in Sessions : (pc[s] = "get_users") ~> (hist[s].outcome # "none")

\* C22. Every pass terminates in exactly one of the three terminal states:
\* EMPTY (an empty list returned, no create call made), ABORTED (an exception
\* raised to the caller) or SUCCESS (K >= 1 created users returned); a pass
\* that has entered the create loop never ends in EMPTY, and SUCCESS is
\* reached only after the sufficiency check passed.
C22_ThreeTerminalStates ==
    /\ []TerminalStates
    /\ [][OutcomeStays]_vars
    /\ PassTerminates

\* A pass entered the create loop, a store operation raised on its second
\* user, and it ended in ABORTED.
C22_Witness ==
    \E s \in Sessions :
        /\ hist[s].outcome = "ABORTED"
        /\ pc[s] = "rollback"
        /\ Len(Writes(s)) > 5
        /\ hist[s].op_exc # "none"

----------------------------------------------------------------------------
(* Duplicate ids, completeness.                                            *)

\* How many records of a listing carry the id.
Occurrences(data, id) == Cardinality({ i \in 1..Len(data) : data[i].id = id })

\* The ids that are not stored and come more than once in the fetched listing.
DuplicateNewIds(s) ==
    { id \in UserIds : /\ id \notin DOMAIN hist[s].db0.users
                       /\ Occurrences(loc[s].users_data, id) >= 2 }

\* C23. Duplicate ids in one fetch are not deduplicated: when an id not in the
\* store comes twice in the fetched listing, both records enter
\* new_users_data, get_credit_cards is asked for a quantity that counts both,
\* and create_user is called for both, with the same primary key.
C23_DuplicatesNotDeduplicated ==
    \A s \in Sessions :
        \A id \in DuplicateNewIds(s) :
            LET new == loc[s].new_users_data
                created == loc[s].created_users
            IN  pc[s] \notin {"get_users", "diff"} =>
                  /\ Occurrences(new, id) = Occurrences(loc[s].users_data, id)
                  /\ CardsReturned(s) =>
                         /\ hist[s].cc_calls = <<Len(new)>>
                         /\ hist[s].cc_calls[1] >= Occurrences(loc[s].users_data, id)
                  /\ pc[s] \in InPass =>
                         \A m \in 1..Len(created) :
                             /\ objs[s][created[m]].kind = "users"
                             /\ objs[s][created[m]].id = new[m].id
                  /\ (hist[s].outcome = "SUCCESS" /\ pc[s] = "commit") =>
                         Cardinality({ j \in Indices(objs[s], "users") :
                                         objs[s][j].id = id })
                             = Occurrences(loc[s].users_data, id)

\* The listing carried the new id 1 twice; two Users with id 1 were created.
C23_Witness ==
    \E s \in Sessions :
        /\ pc[s] = "commit"
        /\ DuplicateNewIds(s) = {1}
        /\ hist[s].cc_calls = <<2>>
        /\ Len(loc[s].created_users) = 2
        /\ objs[s][loc[s].created_users[1]].id = 1
        /\ objs[s][loc[s].created_users[2]].id = 1

\* The ids of a listing.
IdsOf(data) == { data[i].id : i \in 1..Len(data) }

\* C25. Completeness after a committed success: when the fetched listing has
\* pairwise distinct ids and the pass ends in SUCCESS and is committed, every
\* fetched id is in the store afterwards, and the ids the pass added are
\* exactly the fetched ids that were absent before it.
C25_Completeness ==
    \A s \in Sessions :
        LET data == loc[s].users_data
            before == DOMAIN hist[s].db0.users
        IN  ( /\ Cardinality(IdsOf(data)) = Len(data)
              /\ hist[s].outcome = "SUCCESS"
              /\ pc[s] = "idle"
              /\ task[s].result.status = "ok" )
            => /\ IdsOf(data) \subseteq DOMAIN db.users
               /\ DOMAIN db.users \ before = IdsOf(data) \ before
               /\ \A i \in 1..Len(data) :
                      data[i].id \notin before => db.users[data[i].id].name = data[i].name

\* Two distinct ids were fetched, one of them stored before; the pass added
\* the other and was committed.
C25_Witness ==
    \E s \in Sessions :
        /\ hist[s].outcome = "SUCCESS"
        /\ pc[s] = "idle"
        /\ task[s].result = [status |-> "ok", created |-> 1]
        /\ IdsOf(loc[s].users_data) = {1, 2}
        /\ Cardinality(DOMAIN hist[s].db0.users) = 1
        /\ DOMAIN db.users = {1, 2}

----------------------------------------------------------------------------
(* An EMPTY pass and the task.                                             *)

\* C27 as stated: an EMPTY pass is a success to the task: when the directory
\* fetch fails or returns nothing, or no user is new, the task commits,
\* reports 0 processed users and requests no retry; only a raised exception
\* triggers a retry.
C27_AsStated ==
    \A s \in Sessions :
        /\ pc[s] = "retry" => task[s].exc # "none"
        /\ hist[s].outcome = "EMPTY" =>
               /\ pc[s] \in {"commit", "idle"}
               /\ hist[s].rollbacks = 0
               /\ hist[s].retry_calls = 0
               /\ pc[s] = "idle" =>
                      /\ hist[s].commits = 1
                      /\ task[s].result = [status |-> "ok", created |-> 0]

\* C27, amended. An EMPTY pass is a success to the task, which calls
\* session.commit after it. When the directory fetch failed or returned
\* nothing, the task reports 0 processed users and requests no retry. When no
\* fetched user is new, it does the same unless the commit itself raises: then
\* it rolls back and requests a retry. Only a raised exception triggers a retry.
C27_EmptyIsSuccess ==
    \A s \in Sessions :
        /\ pc[s] = "retry" => task[s].exc # "none"
        /\ hist[s].outcome = "EMPTY" =>
               /\ pc[s] = "commit" => task[s].exc = "none" /\ hist[s].commits = 0
               /\ pc[s] # "commit" => hist[s].commits = 1
               /\ (pc[s] = "idle" /\ task[s].exc = "none") =>
                      /\ hist[s].rollbacks = 0
                      /\ hist[s].retry_calls = 0
                      /\ task[s].result = [status |-> "ok", created |-> 0]
               /\ hist[s].ops = <<>> =>
                      /\ loc[s].users_data = <<>>
                      /\ pc[s] \in {"commit", "idle"}
                      /\ task[s].exc = "none"
               /\ task[s].exc # "none" =>
                      /\ task[s].exc = "OperationalError"
                      /\ loc[s].users_data # <<>>
                      /\ loc[s].new_users_data = <<>>
                      /\ pc[s] \in {"rollback", "retry", "idle"}
                      /\ task[s].result.status # "ok"

\* The directory request failed; the task committed and reported 0.
C27_Witness ==
    \E s \in Sessions :
        /\ hist[s].dir_err
        /\ hist[s].outcome = "EMPTY"
        /\ pc[s] = "idle"
        /\ hist[s].commits = 1
        /\ task[s].result = [status |-> "ok", created |-> 0]

\* The users of an id a session has added and not yet inserted.
HoldsPending(s, id) ==
    \E j \in Indices(objs[s], "users") : Pending(objs[s][j]) /\ objs[s][j].id = id

\* C24: nothing in sync_users or the task keeps two executions apart: both can
\* find the same id unstored and both add a User of it. The execution that comes
\* second to the INSERT of that id (at a flush or at the commit, when the other
\* has committed it) never stores anything: the store is left as it was, the
\* execution goes to its except clause, and unless the database was unreachable
\* the exception is the primary-key conflict (IntegrityError).
C24_SecondCommitFails ==
    [][\A s \in Sessions :
          ( /\ pc[s] \in {"flush", "commit"}
            /\ pc'[s] # pc[s]
            /\ \E id \in DOMAIN db.users : HoldsPending(s, id) )
          => /\ db' = db
             /\ \/ pc[s] = "flush" /\ pc'[s] = "except"
                      /\ loc'[s].e \in {"IntegrityError", "OperationalError"}
                \/ pc[s] = "commit" /\ pc'[s] = "rollback"
                      /\ task'[s].exc \in {"IntegrityError", "OperationalError"}]_vars

\* Both executions read the same directory, both found the id new and added a
\* User of it; one has committed, the other's commit met the primary key.
C24_Witness ==
    \E id \in UserIds : \E s, t \in Sessions :
        /\ s # t
        /\ loc[s].users_data = loc[t].users_data
        /\ \A u \in {s, t} :
              \E i \in DOMAIN loc[u].new_users_data : loc[u].new_users_data[i].id = id
        /\ task[t].result.status = "ok"
        /\ id \in DOMAIN db.users
        /\ pc[s] = "rollback"
        /\ task[s].exc = "IntegrityError"
        /\ hist[s].commits = 1
        /\ \E j \in Indices(objs[s], "users") : objs[s][j].id = id

\* The User rows that reference row k of a child table through column fk.
Referrers(tables, fk, k) == { u \in DOMAIN tables.users : tables.users[u][fk] = k }

\* Every User row references an existing Address, Company and CreditCard, and
\* every row of the three child tables is referenced by exactly one User row.
Consistent(tables) ==
    /\ \A u \in DOMAIN tables.users :
          /\ tables.users[u].address_id \in DOMAIN tables.addresses
          /\ tables.users[u].company_id \in DOMAIN tables.companies
          /\ tables.users[u].credit_card_id \in DOMAIN tables.credit_cards
    /\ \A k \in DOMAIN tables.addresses :
          Cardinality(Referrers(tables, "address_id", k)) = 1
    /\ \A k \in DOMAIN tables.companies :
          Cardinality(Referrers(tables, "company_id", k)) = 1
    /\ \A k \in DOMAIN tables.credit_cards :
          Cardinality(Referrers(tables, "credit_card_id", k)) = 1

\* C26: from an empty store, after any interleaving of executions (successful,
\* empty, aborted, retried, overlapping) the committed store is consistent:
\* User rows are one per id (the table is keyed by id, and an execution never
\* replaces a committed row), every User row references an existing Address,
\* Company and CreditCard, every child row is referenced by exactly one User
\* row, and so the four tables have the same number of rows.
C26_CommittedStoreConsistent ==
    /\ Consistent(db)
    /\ \A k \in ChildKinds : Cardinality(DOMAIN db[k]) = Cardinality(DOMAIN db.users)
    /\ \A s \in Sessions : \A u \in DOMAIN hist[s].db0.users :
          u \in DOMAIN db.users /\ db.users[u] = hist[s].db0.users[u]

\* Two overlapping executions that both began on the empty store have each
\* committed a user, the first of them on a retry after an aborted attempt.
C26_Witness ==
    /\ Cardinality(DOMAIN db.users) = 2
    /\ task[1].retries = 1
    /\ \A s \in Sessions :
          /\ pc[s] = "idle"
          /\ task[s].result = [status |-> "ok", created |-> 1]
    /\ hist[2].db0 = EmptyTables
    /\ Cardinality(DOMAIN hist[1].db0.users) = 0

====
